---- MODULE Spec2Model ----
(***************************************************************************)
(* hogtyped (Python): the schema loader / reference resolver of            *)
(* hogtyped/codegen.py and the wrapper class that generate_python_code     *)
(* emits, as state machines.                                               *)
(*                                                                         *)
(* JSON values are tagged records, one payload field per kind, so that two *)
(* values of different kinds are unequal without comparing payloads:       *)
(*   None  [k |-> "null"]          str   [k |-> "str",  s |-> "..."]       *)
(*   bool  [k |-> "bool", b |-> _] int   [k |-> "num",  n |-> _]           *)
(*   list  [k |-> "list", l |-> <<...>>]                                   *)
(*   dict  [k |-> "dict", d |-> [key |-> value]]                           *)
(* A raised exception is [k |-> "raise", e |-> <exception class>].         *)
(***************************************************************************)
EXTENDS Integers, Sequences, FiniteSets, TLC

VARIABLES
    files,            \* the file system: path (sequence of components) -> content
    hashSeed,         \* the process's string-hash seed: fixes the order of set()
    call,             \* the last call of resolve_refs: arguments and result
    pc,               \* position of generate_wrapper
    schema_data,      \* generate_wrapper's local: the result of load_schemas
    code,             \* generate_wrapper's local: the generated module
    exc,              \* the exception that ended generate_wrapper, if any
    output,           \* the output file
    default_mode,     \* the validation mode baked into the generated __init__
    validation_mode,  \* self.validation_mode of the wrapper instance
    schemas,          \* self.schemas of the wrapper instance
    api_key,          \* posthog.project_api_key
    last              \* the last wrapper method call: arguments, outcome, SDK calls

vars == <<files, hashSeed, call, pc, schema_data, code, exc, output,
          default_mode, validation_mode, schemas, api_key, last>>

genVars == <<pc, schema_data, code, exc, output>>
wrapperVars == <<default_mode, validation_mode, schemas, api_key, last>>

----------------------------------------------------------------------------
(* Bounds *)

\* longest allOf array the drawn event schemas hold
MaxAllOf == 2

\* CPython's recursion limit (sys.getrecursionlimit(), 1000 frames), scaled
\* to the model: deeper than every acyclic input, so only a reference cycle
\* reaches it
RecursionLimit == 12

----------------------------------------------------------------------------
(* JSON / Python values *)

Null == [k |-> "null"]
Str(s) == [k |-> "str", s |-> s]
Bool(b) == [k |-> "bool", b |-> b]
Num(n) == [k |-> "num", n |-> n]
EmptyMap == [x \in {} |-> Null]
\* a list and a dict hold their values from the moment they are built
List(l) == [k |-> "list", l |-> l \o <<>>]
Dict(d) == [k |-> "dict", d |-> d @@ EmptyMap]
Raise(e) == [k |-> "raise", e |-> e]
EmptyDict == Dict(EmptyMap)
EmptyList == List(<<>>)

IsNull(v) == v.k = "null"
IsStr(v) == v.k = "str"
IsList(v) == v.k = "list"
IsDict(v) == v.k = "dict"
IsRaise(v) == v.k = "raise"

\* Python truthiness: `not x` holds of None, False, 0, "", [] and {}
Truthy(v) ==
    CASE v.k = "null" -> FALSE
      [] v.k = "bool" -> v.b
      [] v.k = "num"  -> v.n # 0
      [] v.k = "str"  -> v.s # ""
      [] v.k = "list" -> Len(v.l) > 0
      [] v.k = "dict" -> DOMAIN v.d # {}
      [] OTHER -> TRUE

\* key in dict
HasKey(v, key) == IsDict(v) /\ key \in DOMAIN v.d

\* dict.get(key, default)
GetOr(v, key, default) == IF key \in DOMAIN v.d THEN v.d[key] ELSE default

\* dict.get(key)
Get(v, key) == GetOr(v, key, Null)

\* the elements of a sequence
Range(s) == {s[i] : i \in DOMAIN s}

----------------------------------------------------------------------------
(* Strings.  TLC has no character operations, so the spelling of every     *)
(* string the code takes apart is given here as its sequence of tokens     *)
(* (separator characters and the words between them); startswith, split    *)
(* and slicing are then computed on the tokens as the code computes them   *)
(* on the characters.  A string without separators is its own one token.   *)

Tokens(s) ==
    CASE s = "#/definitions/Shared"  -> <<"#", "/", "definitions", "/", "Shared">>
      [] s = "#/definitions/Chain"   -> <<"#", "/", "definitions", "/", "Chain">>
      [] s = "#/definitions/Base"    -> <<"#", "/", "definitions", "/", "Base">>
      [] s = "#/definitions/Extra"   -> <<"#", "/", "definitions", "/", "Extra">>
      [] s = "#/definitions/Loop"    -> <<"#", "/", "definitions", "/", "Loop">>
      [] s = "#/definitions/Missing" -> <<"#", "/", "definitions", "/", "Missing">>
      [] s = "#/missing/Shared"      -> <<"#", "/", "missing", "/", "Shared">>
      [] s = "#/definitions/Inner"   -> <<"#", "/", "definitions", "/", "Inner">>
      [] s = "./common.json"         -> <<".", "/", "common.json">>
      [] s = "./plain.json"          -> <<".", "/", "plain.json">>
      [] s = "./absent.json"         -> <<".", "/", "absent.json">>
      [] s = "./broken.json"         -> <<".", "/", "broken.json">>
      [] s = "./common.json#/definitions/Ext" ->
            <<".", "/", "common.json", "#", "/", "definitions", "/", "Ext">>
      [] s = "./common.json#/definitions/Missing" ->
            <<".", "/", "common.json", "#", "/", "definitions", "/", "Missing">>
      [] s = "./common.json#/missing/Ext" ->
            <<".", "/", "common.json", "#", "/", "missing", "/", "Ext">>
      [] s = "http://example.com/shared.json" ->
            <<"http:", "/", "/", "example.com", "/", "shared.json">>
      [] OTHER -> <<s>>

\* str.startswith(prefix), on tokens
StartsWith(ts, prefix) ==
    Len(ts) >= Len(prefix) /\ SubSeq(ts, 1, Len(prefix)) = prefix

\* s[n:], on tokens (every dropped token is one character)
DropFirst(ts, n) == SubSeq(ts, n + 1, Len(ts))

\* str.split(sep): the pieces between the separators, each a token sequence
RECURSIVE SplitFrom(_, _, _)
SplitFrom(ts, sep, piece) ==
    IF ts = <<>> THEN <<piece>>
    ELSE IF Head(ts) = sep THEN <<piece>> \o SplitFrom(Tail(ts), sep, <<>>)
    ELSE SplitFrom(Tail(ts), sep, Append(piece, Head(ts)))

Split(ts, sep) == SplitFrom(ts, sep, <<>>)

\* dict.get(part) for a part given by its tokens: the value under the key
\* spelled that way, None when no key of the dict is
GetPart(v, part) ==
    IF \E key \in DOMAIN v.d : Tokens(key) = part
    THEN v.d[CHOOSE key \in DOMAIN v.d : Tokens(key) = part]
    ELSE Null

\* Path(file_path).parent / ref_file: a path is its sequence of components;
\* pathlib drops the "." components of the joined part
PathJoin(file_path, ref_file) ==
    LET parts == Split(ref_file, "/")
        kept == SelectSeq(parts, LAMBDA p : p # <<".">> /\ p # <<>>)
    IN SubSeq(file_path, 1, Len(file_path) - 1)
         \o [i \in 1..Len(kept) |-> kept[i][1]]

----------------------------------------------------------------------------
(* The file system *)

InvalidJson == [k |-> "invalid"]

\* open(path) + json.load: the parsed document, or the exception raised
ReadJson(path) ==
    IF path \notin DOMAIN files THEN Raise("FileNotFoundError")
    ELSE IF files[path] = InvalidJson THEN Raise("JSONDecodeError")
    ELSE files[path]

----------------------------------------------------------------------------
(* Orders on strings *)

\* the strings the code sorts or hashes, in ascending code-point order
StringOrder ==
    <<"a.schema.json", "alpha_event", "b.schema.json", "beta_event",
      "count", "name", "payload", "plan", "schemas", "simple_event",
      "w", "x", "y", "z">>

\* position of a string in StringOrder (s < t iff StrRank(s) < StrRank(t))
StrRank(s) == CHOOSE i \in DOMAIN StringOrder : StringOrder[i] = s

\* the orders in which a set of strings can be iterated: the string hash
\* is seeded per process, so the order is fixed within a run and differs
\* between runs
HashSeeds == {"ascending", "descending"}

HashRank(s) ==
    IF hashSeed = "ascending" THEN StrRank(s) ELSE Len(StringOrder) - StrRank(s)

\* the elements of S as a sequence, by increasing rank
RECURSIVE SortedBy(_, _)
SortedBy(S, rank) ==
    IF S = {} THEN <<>>
    ELSE LET m == CHOOSE x \in S : \A y \in S : rank[x] <= rank[y]
         IN <<m>> \o SortedBy(S \ {m}, rank)

\* list(set(l)) of a list of strings
ListOfSet(l) ==
    LET S == Range(l)
    IN SortedBy(S, [x \in S |-> HashRank(x.s)])

----------------------------------------------------------------------------
(* resolve_refs *)

\* the loops over the parts of a JSON pointer: resolved = resolved.get(part)
\* for each part; the internal loop breaks at the first None, the external
\* one goes on and calls None.get
RECURSIVE Walk(_, _, _)
Walk(node, parts, stop_at_none) ==
    IF parts = <<>> THEN node
    ELSE IF ~IsDict(node) THEN Raise("AttributeError")
    ELSE LET next == GetPart(node, Head(parts))
         IN IF stop_at_none /\ IsNull(next) THEN Null
            ELSE Walk(next, Tail(parts), stop_at_none)

\* merged starting with a property of its own
MergedInit_with_property ==
    Dict([type |-> Str("object"),
          properties |-> Dict([name |-> Dict([type |-> Str("null")])]),
          required |-> EmptyList])

\* merged before the loop over allOf
MergedInit ==
    Dict([type |-> Str("object"), properties |-> EmptyDict, required |-> EmptyList])

\* one round of the loop in which a property already merged is kept
MergeMember_keeps_earlier(merged, resolved) ==
    IF ~IsDict(resolved) THEN merged
    ELSE LET props == GetOr(resolved, "properties", EmptyDict)
             req == GetOr(resolved, "required", EmptyList)
         IN IF ~IsDict(props) \/ ~IsList(req) THEN Raise("TypeError")
            ELSE Dict((IF "additionalProperties" \in DOMAIN resolved.d
                       THEN "additionalProperties" :> resolved.d["additionalProperties"]
                       ELSE EmptyMap)
                      @@ [properties |-> Dict(merged.d["properties"].d @@ props.d),
                          required |-> List(merged.d["required"].l \o req.l)]
                      @@ merged.d)

\* one round of the loop over allOf, given the member as resolved
MergeMember(merged, resolved) ==
    IF ~IsDict(resolved) THEN merged
    ELSE LET props == GetOr(resolved, "properties", EmptyDict)
             req == GetOr(resolved, "required", EmptyList)
         IN IF ~IsDict(props) \/ ~IsList(req) THEN Raise("TypeError")
            ELSE Dict((IF "additionalProperties" \in DOMAIN resolved.d
                       THEN "additionalProperties" :> resolved.d["additionalProperties"]
                       ELSE EmptyMap)
                      @@ [properties |-> Dict(props.d @@ merged.d["properties"].d),
                          required |-> List(merged.d["required"].l \o req.l)]
                      @@ merged.d)

\* merged['required'] = list(set(merged['required']))
DedupRequired(merged) ==
    Dict([required |-> List(ListOfSet(merged.d["required"].l))] @@ merged.d)

\* the first exception among the results of a comprehension, if any
FirstRaise(results) ==
    IF \E r \in results : IsRaise(r)
    THEN CHOOSE r \in results : IsRaise(r)
    ELSE Null

\* LET names below that take a parameter stand for the code's local of that
\* name: the value is computed once and passed in

RECURSIVE resolve_refs(_, _, _, _)
RECURSIVE MergeAllOf(_, _, _, _, _)

\* the loop over schema['allOf']
MergeAllOf(subs, merged, root_schema, file_path, depth) ==
    IF subs = <<>> THEN merged
    ELSE LET Rest(m) ==
                 IF IsRaise(m) THEN m
                 ELSE MergeAllOf(Tail(subs), m, root_schema, file_path, depth)
             Round(resolved) ==
                 IF IsRaise(resolved) THEN resolved
                 ELSE Rest(MergeMember(merged, resolved))
         IN Round(resolve_refs(Head(subs), root_schema, file_path, depth + 1))

\* resolve_refs(schema, root_schema, file_path); depth counts the frames
resolve_refs(schema, root_schema, file_path, depth) ==
    IF depth > RecursionLimit THEN Raise("RecursionError")
    ELSE IF ~Truthy(schema) THEN schema
    ELSE IF IsDict(schema) THEN
        IF "$ref" \in DOMAIN schema.d THEN
            LET \* return resolve_refs(resolved, root, path)
                Return(resolved, root, path) ==
                    IF IsRaise(resolved) THEN resolved
                    ELSE resolve_refs(resolved, root, path, depth + 1)
                \* ref.startswith('#/')
                Internal(ref) ==
                    Return(Walk(root_schema, Split(DropFirst(ref, 2), "/"), TRUE),
                           root_schema, file_path)
                \* ref.startswith('./'), once the file is read
                Loaded(ref_parts, ref_file, ref_content) ==
                    IF IsRaise(ref_content) THEN ref_content
                    ELSE IF Len(ref_parts) > 1 /\ ref_parts[2] # <<>> THEN
                        Return(Walk(ref_content,
                                    Split(DropFirst(ref_parts[2], 1), "/"), FALSE),
                               ref_content, ref_file)
                    ELSE ref_content
                Opened(ref_parts, ref_file) ==
                    Loaded(ref_parts, ref_file, ReadJson(ref_file))
                External(ref_parts) ==
                    Opened(ref_parts, PathJoin(file_path, ref_parts[1]))
                Branch(ref) ==
                    IF StartsWith(ref, <<"#", "/">>) THEN Internal(ref)
                    ELSE IF StartsWith(ref, <<".", "/">>) THEN External(Split(ref, "#"))
                    ELSE schema
            IN IF ~IsStr(schema.d["$ref"]) THEN Raise("AttributeError")
               ELSE Branch(Tokens(schema.d["$ref"].s))
        ELSE IF "allOf" \in DOMAIN schema.d THEN
            IF ~IsList(schema.d["allOf"]) THEN Raise("TypeError")
            ELSE LET Done(merged) ==
                         IF IsRaise(merged) THEN merged ELSE DedupRequired(merged)
                 IN Done(MergeAllOf(schema.d["allOf"].l, MergedInit,
                                    root_schema, file_path, depth))
        ELSE
            LET Built(values) ==
                    IF \E key \in DOMAIN values : IsRaise(values[key])
                    THEN FirstRaise({values[key] : key \in DOMAIN values})
                    ELSE Dict(values)
            IN Built([key \in DOMAIN schema.d |->
                        resolve_refs(schema.d[key], root_schema, file_path, depth + 1)]
                     @@ EmptyMap)
    ELSE IF IsList(schema) THEN
        LET Built(items) ==
                IF \E i \in DOMAIN items : IsRaise(items[i])
                THEN FirstRaise(Range(items))
                ELSE List(items)
        IN Built([i \in DOMAIN schema.l |->
                    resolve_refs(schema.l[i], root_schema, file_path, depth + 1)]
                 \o <<>>)
    ELSE schema

----------------------------------------------------------------------------
(* The schema documents the specifications draw their inputs from *)

Ref(s) == Dict("$ref" :> Str(s))
TypeOnly(t) == Dict([type |-> Str(t)])

\* the plan property of the usage examples: a string enum
PlanEnum == Dict([type |-> Str("string"), enum |-> List(<<Str("free"), Str("pro")>>)])

\* definitions of schemas/a.schema.json
MainDefinitions ==
    Dict([Shared |-> Dict([type |-> Str("object"),
                           properties |-> Dict([x |-> TypeOnly("string")])]),
          Chain  |-> Ref("#/definitions/Shared"),
          Base   |-> Dict([type |-> Str("object"),
                           properties |-> Dict([name |-> TypeOnly("string"),
                                                plan |-> PlanEnum]),
                           required |-> List(<<Str("name")>>),
                           additionalProperties |-> Bool(TRUE)]),
          Extra  |-> Dict([properties |-> Dict([plan |-> TypeOnly("integer"),
                                                count |-> TypeOnly("integer")]),
                           required |-> List(<<Str("count"), Str("name")>>),
                           additionalProperties |-> Bool(FALSE)]),
          Loop   |-> Ref("#/definitions/Loop")])

\* schemas/common.json: a document with definitions of its own, itself a schema
CommonDoc ==
    Dict([definitions |->
              Dict([Ext |-> Dict([type |-> Str("object"),
                                  properties |-> Dict([y |-> Ref("#/definitions/Inner")]),
                                  required |-> List(<<Str("y")>>)]),
                    Inner |-> TypeOnly("integer")]),
          type |-> Str("object"),
          properties |-> Dict([z |-> Ref("#/definitions/Inner")]),
          required |-> List(<<Str("z")>>)])

\* schemas/plain.json: a schema without references
PlainDoc ==
    Dict([type |-> Str("object"), properties |-> Dict([w |-> TypeOnly("boolean")])])

MainPath == <<"schemas", "a.schema.json">>
SecondPath == <<"schemas", "b.schema.json">>
CommonPath == <<"schemas", "common.json">>
PlainPath == <<"schemas", "plain.json">>
BrokenPath == <<"schemas", "broken.json">>

\* the files next to the schema files, targets of external references; one of
\* them is not JSON
SharedFiles ==
    (CommonPath :> CommonDoc) @@ (PlainPath :> PlainDoc) @@ (BrokenPath :> InvalidJson)

\* the $ref strings: internal (found, chained, missing, cyclic), external
\* (with and without fragment, missing file, missing fragment, file that is
\* not JSON), unsupported
RefStrings ==
    {"#/definitions/Shared", "#/definitions/Chain", "#/definitions/Base",
     "#/definitions/Extra", "#/definitions/Missing", "#/missing/Shared",
     "#/definitions/Loop",
     "./common.json#/definitions/Ext", "./common.json", "./plain.json",
     "./common.json#/definitions/Missing", "./common.json#/missing/Ext",
     "./absent.json", "./broken.json", "http://example.com/shared.json"}

Refs == {Ref(s) : s \in RefStrings}

\* a string that may be null: {"type": ["string", "null"]}
NullableString == Dict([type |-> List(<<Str("string"), Str("null")>>)])

\* schemas of one property
PropFrags ==
    Refs \cup {TypeOnly("string"), PlanEnum, NullableString,
               Dict([type |-> Str("array"), items |-> Ref("#/definitions/Chain")])}

\* a plain object event: a property drawn from PropFrags beside a fixed one
ObjectEvent(p) ==
    Dict([type |-> Str("object"),
          properties |-> Dict([payload |-> p, name |-> TypeOnly("string")]),
          required |-> List(<<Str("name")>>)])

\* members of an allOf: references and an inline object
Members ==
    {Ref("#/definitions/Base"), Ref("#/definitions/Extra"), Ref("#/definitions/Chain"),
     Ref("#/definitions/Missing"), Ref("./common.json"),
     Ref("./common.json#/definitions/Ext"), Ref("http://example.com/shared.json"),
     Dict([properties |-> Dict([name |-> TypeOnly("integer")]),
           required |-> List(<<Str("plan"), Str("name")>>)])}

SeqsUpTo(S, n) == UNION {[1..m -> S] : m \in 0..n}

AllOfEvents == {Dict([allOf |-> List(seq)]) : seq \in SeqsUpTo(Members, MaxAllOf)}

\* the event schemas drawn
EventFrags == Refs \cup {ObjectEvent(p) : p \in PropFrags} \cup AllOfEvents

\* schemas/a.schema.json with one event
MainDoc(event_schema) ==
    Dict([definitions |-> MainDefinitions, events |-> Dict([simple_event |-> event_schema])])

----------------------------------------------------------------------------
(* Calls of resolve_refs on the fragments of a document *)

NoCall == [made |-> FALSE, again |-> FALSE, schema |-> Null, file_path |-> <<>>,
           result |-> Null]

\* the fragments a call is made on: the events and the definitions of a document
Candidates(doc) ==
    {GetOr(doc, "events", EmptyDict).d[e] : e \in DOMAIN GetOr(doc, "events", EmptyDict).d}
    \cup {GetOr(doc, "definitions", EmptyDict).d[n] :
            n \in DOMAIN GetOr(doc, "definitions", EmptyDict).d}

\* resolve_refs(schema, root_schema, file_path) with root_schema the document
\* of file_path
CallResolveRefs ==
    /\ \E path \in {p \in DOMAIN files : IsDict(files[p])} :
         \E schema \in Candidates(files[path]) :
            call' = [made |-> TRUE, again |-> FALSE, schema |-> schema,
                     file_path |-> path,
                     result |-> resolve_refs(schema, files[path], path, 0)]
    /\ UNCHANGED <<files, hashSeed, genVars, wrapperVars>>

\* resolve_refs on the result of the last call, same root and path
ResolveAgain ==
    /\ call.made /\ ~call.again /\ ~IsRaise(call.result)
    /\ call' = [call EXCEPT !.again = TRUE, !.schema = call.result,
                  !.result = resolve_refs(call.result, files[call.file_path],
                                          call.file_path, 0)]
    /\ UNCHANGED <<files, hashSeed, genVars, wrapperVars>>

\* three object fragments to compose: references to definitions and inline
\* objects that share names and differ in what they require and allow
ObjectMembers ==
    {Ref("#/definitions/Base"), Ref("#/definitions/Extra"),
     Dict([properties |-> Dict([count |-> TypeOnly("string")])])}

\* resolve_refs on allOf [A, B, C] and on allOf [A, {allOf: [B, C]}], same
\* root and path, as the first calls made
CallResolveNested ==
    /\ ~call.made
    /\ \E path \in {MainPath} \cap DOMAIN files :
         \E A \in ObjectMembers, B \in ObjectMembers, C \in ObjectMembers :
            call' = [made |-> TRUE, again |-> FALSE,
                     schema |-> Dict([allOf |-> List(<<A, B, C>>)]),
                     file_path |-> path,
                     result |-> resolve_refs(Dict([allOf |-> List(<<A, B, C>>)]),
                                             files[path], path, 0),
                     nested |-> resolve_refs(
                                    Dict([allOf |-> List(<<A, Dict([allOf |-> List(<<B, C>>)])>>)]),
                                    files[path], path, 0)]
    /\ UNCHANGED <<files, hashSeed, genVars, wrapperVars>>

\* the variables a specification does not use
IdleGen ==
    /\ pc = "idle" /\ schema_data = <<>> /\ code = Null /\ exc = Null /\ output = Null

\* no wrapper instance: its attributes are not set
IdleWrapper ==
    /\ default_mode = "warning" /\ validation_mode = "unset"
    /\ schemas = Null /\ api_key = Null /\ last = [op |-> "none"]

InitResolve ==
    /\ \E e \in EventFrags : files = (MainPath :> MainDoc(e)) @@ SharedFiles
    /\ hashSeed \in HashSeeds
    /\ call = NoCall
    /\ IdleGen
    /\ IdleWrapper

NextResolve == CallResolveRefs \/ ResolveAgain \/ CallResolveNested

SpecResolve == InitResolve /\ [][NextResolve]_vars

----------------------------------------------------------------------------
(* load_schemas *)

\* the part of a file name from its first dot on
Suffix(name) ==
    CASE name \in {"a.schema.json", "b.schema.json"} -> ".schema.json"
      [] OTHER -> ".json"

\* the --schemas pattern: ./schemas/*.schema.json
Pattern == [dir |-> <<"schemas">>, suffix |-> ".schema.json"]

\* the paths glob(pattern) yields, as a set: glob's order is the file system's
Glob(pattern) ==
    {p \in DOMAIN files :
        /\ SubSeq(p, 1, Len(p) - 1) = pattern.dir
        /\ Suffix(p[Len(p)]) = pattern.suffix}

\* the sequences that list each element of S once
Orders(S) == {o \in [1..Cardinality(S) -> S] : Range(o) = S}

\* sorted(seq, key=..., reverse=...): a stable sort; keyOf[i] is the rank of
\* seq[i], negated under reverse=True, which keeps equal keys in their order
RECURSIVE InsertSorted(_, _, _)
InsertSorted(done, i, keyOf) ==
    IF done = <<>> THEN <<i>>
    ELSE IF keyOf[Head(done)] <= keyOf[i]
         THEN <<Head(done)>> \o InsertSorted(Tail(done), i, keyOf)
         ELSE <<i>> \o done

RECURSIVE SortIndices(_, _)
SortIndices(n, keyOf) ==
    IF n = 0 THEN <<>> ELSE InsertSorted(SortIndices(n - 1, keyOf), n, keyOf)

\* a sort that leaves the sequence in the order given
Sorted_as_given(seq, keyOf) == seq

Sorted(seq, keyOf) ==
    LET idx == SortIndices(Len(seq), keyOf)
    IN [j \in 1..Len(seq) |-> seq[idx[j]]] \o <<>>

\* a capitalize that returns the word as it is
Capitalize_as_is(word) == word

\* str.capitalize() of the words of the event names: the first character in
\* upper case, the others in lower case
Capitalize(word) ==
    CASE word = "simple" -> "Simple"
      [] word = "event"  -> "Event"
      [] word = "alpha"  -> "Alpha"
      [] word = "beta"   -> "Beta"
      [] word = "user"   -> "User"
      [] word = "signed" -> "Signed"
      [] word = "up"     -> "Up"
      [] word = "button" -> "Button"
      [] word = "clicked" -> "Clicked"
      [] word = "page"   -> "Page"
      [] word = "view"   -> "View"
      [] word = "checkoutStarted" -> "Checkoutstarted"
      [] OTHER -> word

\* the spelling of the event names
NameTokens(s) ==
    CASE s = "simple_event" -> <<"simple", "_", "event">>
      [] s = "alpha_event"  -> <<"alpha", "_", "event">>
      [] s = "beta_event"   -> <<"beta", "_", "event">>
      [] s = "user_signed_up" -> <<"user", "_", "signed", "_", "up">>
      [] s = "button-clicked" -> <<"button", "-", "clicked">>
      [] s = "page__view"   -> <<"page", "_", "_", "view">>
      [] OTHER -> <<s>>

\* event_name_to_type: the type name, as the sequence of its words
event_name_to_type(event_name) ==
    LET replaced == [i \in DOMAIN NameTokens(event_name) |->
                       IF NameTokens(event_name)[i] = "-" THEN "_"
                       ELSE NameTokens(event_name)[i]]
        parts == SelectSeq(Split(replaced, "_"), LAMBDA w : w # <<>>)
    IN [i \in 1..Len(parts) |-> Capitalize(parts[i][1])] \o <<"Properties">>

\* the body of the loop over content['events'].items(): the dict appended
SchemaEntry(event_name, event_schema, content, file_path) ==
    LET Entry(resolved) ==
            IF IsRaise(resolved) THEN resolved
            ELSE IF ~IsDict(resolved) THEN Raise("AttributeError")
            ELSE [k |-> "entry",
                  event_name |-> event_name,
                  type_name |-> event_name_to_type(event_name),
                  schema |-> resolved,
                  properties |-> GetOr(resolved, "properties", EmptyDict),
                  required |-> GetOr(resolved, "required", EmptyList)]
    IN Entry(resolve_refs(event_schema, content, file_path, 0))

\* the loop over content['events'].items(), in the order the document lists them
RECURSIVE LoadEvents(_, _, _, _)
LoadEvents(names, content, file_path, acc) ==
    IF names = <<>> THEN List(acc)
    ELSE LET Appended(entry) ==
                 IF IsRaise(entry) THEN entry
                 ELSE LoadEvents(Tail(names), content, file_path, Append(acc, entry))
         IN Appended(SchemaEntry(Head(names), content.d["events"].d[Head(names)],
                                 content, file_path))

\* the loop over schema_files; items_order[path] is the order of the events
\* in the document of path
RECURSIVE LoadFiles(_, _, _)
LoadFiles(schema_files, items_order, acc) ==
    IF schema_files = <<>> THEN List(acc)
    ELSE LET Next(added) ==
                 IF IsRaise(added) THEN added
                 ELSE LoadFiles(Tail(schema_files), items_order, added.l)
             File(file_path, content) ==
                 IF IsRaise(content) THEN content
                 ELSE IF IsDict(content) /\ "events" \in DOMAIN content.d
                 THEN IF ~IsDict(content.d["events"]) THEN Raise("AttributeError")
                      ELSE Next(LoadEvents(items_order[file_path], content, file_path, acc))
                 ELSE Next(List(acc))
         IN File(Head(schema_files), ReadJson(Head(schema_files)))

\* the orders in which the documents can list their events
ItemsOrders ==
    LET withEvents == {p \in DOMAIN files :
                          /\ IsDict(files[p]) /\ "events" \in DOMAIN files[p].d
                          /\ IsDict(files[p].d["events"])}
    IN {o \in [withEvents -> UNION {Orders(DOMAIN files[p].d["events"].d) : p \in withEvents}] :
           \A p \in withEvents : o[p] \in Orders(DOMAIN files[p].d["events"].d)}

\* load_schemas(pattern), given the order glob lists the files in and the
\* orders the documents list their events in
load_schemas(pattern, glob_order, items_order) ==
    LET schema_files == Sorted(glob_order,
                               [i \in DOMAIN glob_order |->
                                   StrRank(glob_order[i][Len(glob_order[i])])])
        Return(loaded) ==
            IF IsRaise(loaded) THEN loaded
            ELSE List(Sorted(loaded.l,
                             [i \in DOMAIN loaded.l |->
                                 0 - StrRank(loaded.l[i].event_name)]))
    IN Return(LoadFiles(schema_files, items_order, <<>>))

----------------------------------------------------------------------------
(* generate_python_code: the schema table and what makes it raise *)

\* the text of a string once json_to_python_literal has replaced true, false
\* and null in the dumped JSON: the replaced tokens, spelled back
PyToken(t) ==
    CASE t = "true" -> "True" [] t = "false" -> "False" [] t = "null" -> "None"
      [] OTHER -> t

PyText(s) ==
    LET ts == [i \in DOMAIN Tokens(s) |-> PyToken(Tokens(s)[i])]
    IN IF ts = Tokens(s) THEN s
       ELSE IF Len(ts) = 1 THEN ts[1]
       ELSE CHOOSE t \in RefStrings : Tokens(t) = ts

\* the value the literal json_to_python_literal(obj) evaluates to
RECURSIVE json_to_python_literal(_)
json_to_python_literal(obj) ==
    CASE obj.k = "str"  -> Str(PyText(obj.s))
      [] obj.k = "list" -> List([i \in DOMAIN obj.l |-> json_to_python_literal(obj.l[i])])
      [] obj.k = "dict" ->
            Dict([key \in {PyText(x) : x \in DOMAIN obj.d} |->
                    json_to_python_literal(
                        obj.d[CHOOSE x \in DOMAIN obj.d : PyText(x) = key])])
      [] OTHER -> obj

\* type hints, as terms: a name, List[...] of a hint, Literal[...] of the
\* values its members denote
Hint(name) == [k |-> "hint", name |-> name]
ListHint(items_type) == [k |-> "hint", name |-> "List", of |-> items_type]
LiteralHint(values) == [k |-> "hint", name |-> "Literal", values |-> values \o <<>>]

\* the decimal text of the numbers the enums hold
NumText(n) ==
    CASE n = 0 -> "0" [] n = 1 -> "1" [] n = 2 -> "2" [] n = 3 -> "3"

\* f'"{v}"': whatever v is, the member written is the string of str(v)
Quoted(v) ==
    CASE v.k = "str"  -> v
      [] v.k = "num"  -> Str(NumText(v.n))
      [] v.k = "bool" -> Str(IF v.b THEN "True" ELSE "False")
      [] v.k = "null" -> Str("None")

\* json_schema_to_python_type(schema); an enum that is not a list is taken
\* to be a number or a boolean, which cannot be iterated
RECURSIVE json_schema_to_python_type(_)
json_schema_to_python_type(schema) ==
    IF ~Truthy(schema) THEN Hint("Any")
    ELSE IF ~IsDict(schema) THEN Raise("AttributeError")
    ELSE LET schema_type == GetOr(schema, "type", Null)
             Enum(enum) ==
                 IF ~Truthy(enum) THEN Hint("str")
                 ELSE IF ~IsList(enum) THEN Raise("TypeError")
                 ELSE LiteralHint([i \in DOMAIN enum.l |-> Quoted(enum.l[i])])
             Array(items_type) ==
                 IF IsRaise(items_type) THEN items_type ELSE ListHint(items_type)
         IN CASE schema_type = Str("string")  -> Enum(GetOr(schema, "enum", Null))
              [] schema_type = Str("number")  -> Hint("float")
              [] schema_type = Str("integer") -> Hint("int")
              [] schema_type = Str("boolean") -> Hint("bool")
              [] schema_type = Str("array")   ->
                    Array(json_schema_to_python_type(GetOr(schema, "items", EmptyDict)))
              [] schema_type = Str("object")  -> Hint("Dict[str, Any]")
              [] OTHER -> Hint("Any")

\* len(x) raises TypeError on None, a number and a bool
Sized(v) == v.k \in {"dict", "list", "str"}

\* the exception the TypedDict loop raises on one entry of schemas, or None
TypedDictRaise(entry) ==
    IF ~Sized(entry.properties) \/ ~Sized(entry.required) THEN Raise("TypeError")
    ELSE IF ~Truthy(entry.properties) THEN Null
    ELSE IF ~IsDict(entry.properties) THEN Raise("AttributeError")
    ELSE IF \E n \in DOMAIN entry.properties.d : ~IsDict(entry.properties.d[n])
         THEN Raise("AttributeError")
    ELSE IF \E n \in DOMAIN entry.properties.d :
                IsRaise(json_schema_to_python_type(entry.properties.d[n]))
         THEN FirstRaise({json_schema_to_python_type(entry.properties.d[n]) :
                            n \in DOMAIN entry.properties.d})
    ELSE Null

\* Optional[...] of a hint
OptionalHint(prop_type) == [k |-> "hint", name |-> "Optional", of |-> prop_type]

\* prop_name in schema['required'], for a list or a dict
IsRequired(prop_name, required) ==
    IF IsList(required) THEN Str(prop_name) \in Range(required.l)
    ELSE IsDict(required) /\ prop_name \in DOMAIN required.d

\* a line of a TypedDict in which every property is wrapped
TypedDictField_always_optional(prop_name, prop_schema, required) ==
    [name |-> prop_name, type |-> OptionalHint(json_schema_to_python_type(prop_schema))]

\* the line of a TypedDict for one property: its name and its type, wrapped
\* in Optional when the name is not in required (the schemas drawn have no
\* description)
TypedDictField(prop_name, prop_schema, required) ==
    [name |-> prop_name,
     type |-> IF IsRequired(prop_name, required)
              THEN json_schema_to_python_type(prop_schema)
              ELSE OptionalHint(json_schema_to_python_type(prop_schema))]

\* len(x) of a dict or a list
PyLen(v) == IF IsDict(v) THEN Cardinality(DOMAIN v.d) ELSE Len(v.l)

\* the class written for one entry of schemas: its name, whether it is
\* total, and its lines, one per item of schema['properties'].  The dicts
\* here do not keep the order of their items: the lines are listed by name
TypedDict(entry) ==
    [type_name |-> entry.type_name,
     total |-> ~(PyLen(entry.properties) > PyLen(entry.required)),
     fields |-> IF ~Truthy(entry.properties) THEN <<>>
                ELSE LET names == SortedBy(DOMAIN entry.properties.d,
                                           [n \in DOMAIN entry.properties.d |-> StrRank(n)])
                     IN [i \in DOMAIN names |->
                            TypedDictField(names[i], entry.properties.d[names[i]],
                                           entry.required)] \o <<>>]

\* a generator that refuses an empty list of events
generate_python_code_needs_events(schemas_list, validation_mode_arg) ==
    IF schemas_list = <<>> THEN Raise("ValueError")
    ELSE IF \E i \in DOMAIN schemas_list : IsRaise(TypedDictRaise(schemas_list[i]))
    THEN FirstRaise({TypedDictRaise(schemas_list[i]) : i \in DOMAIN schemas_list})
    ELSE [k |-> "code",
          typed_dicts |-> [i \in DOMAIN schemas_list |-> TypedDict(schemas_list[i])] \o <<>>,
          event_names |-> [i \in DOMAIN schemas_list |-> schemas_list[i].event_name],
          schemas_const |-> [i \in DOMAIN schemas_list |->
                               [key |-> schemas_list[i].event_name,
                                value |-> json_to_python_literal(schemas_list[i].schema)]],
          validation_mode |-> validation_mode_arg]

\* generate_python_code(schemas, class_name, validation_mode): the parts of
\* the module text that the wrapper's behaviour depends on
generate_python_code(schemas_list, validation_mode_arg) ==
    IF \E i \in DOMAIN schemas_list : IsRaise(TypedDictRaise(schemas_list[i]))
    THEN FirstRaise({TypedDictRaise(schemas_list[i]) : i \in DOMAIN schemas_list})
    ELSE [k |-> "code",
          typed_dicts |-> [i \in DOMAIN schemas_list |-> TypedDict(schemas_list[i])] \o <<>>,
          event_names |-> [i \in DOMAIN schemas_list |-> schemas_list[i].event_name],
          schemas_const |-> [i \in DOMAIN schemas_list |->
                               [key |-> schemas_list[i].event_name,
                                value |-> json_to_python_literal(schemas_list[i].schema)]],
          validation_mode |-> validation_mode_arg]

\* the dict the literal SCHEMAS = {...} evaluates to: a repeated key keeps
\* its last value
RECURSIVE DictLiteral(_, _)
DictLiteral(items, acc) ==
    IF items = <<>> THEN Dict(acc)
    ELSE DictLiteral(Tail(items), (Head(items).key :> Head(items).value) @@ acc)

----------------------------------------------------------------------------
(* generate_wrapper, step by step *)

\* a load that opens the output file for writing first: a failed load leaves
\* it empty
LoadSchemas_truncates_output ==
    /\ pc = "start"
    /\ \E glob_order \in Orders(Glob(Pattern)) : \E items_order \in ItemsOrders :
         LET Assign(loaded) ==
                 IF IsRaise(loaded)
                 THEN pc' = "raised" /\ exc' = loaded /\ output' = Null
                      /\ UNCHANGED schema_data
                 ELSE pc' = "loaded" /\ schema_data' = loaded.l /\ UNCHANGED <<exc, output>>
         IN Assign(load_schemas(Pattern, glob_order, items_order))
    /\ UNCHANGED <<files, hashSeed, call, code, wrapperVars>>

\* schema_data = load_schemas(schemas)
LoadSchemas ==
    /\ pc = "start"
    /\ \E glob_order \in Orders(Glob(Pattern)) : \E items_order \in ItemsOrders :
         LET Assign(loaded) ==
                 IF IsRaise(loaded)
                 THEN pc' = "raised" /\ exc' = loaded /\ UNCHANGED schema_data
                 ELSE pc' = "loaded" /\ schema_data' = loaded.l /\ UNCHANGED exc
         IN Assign(load_schemas(Pattern, glob_order, items_order))
    /\ UNCHANGED <<files, hashSeed, call, code, output, wrapperVars>>

\* code = generate_python_code(schema_data, class_name, validation_mode)
GenerateCode ==
    /\ pc = "loaded"
    /\ LET Assign(generated) ==
               IF IsRaise(generated)
               THEN pc' = "raised" /\ exc' = generated /\ UNCHANGED code
               ELSE pc' = "generated" /\ code' = generated /\ UNCHANGED exc
       IN Assign(generate_python_code(schema_data, default_mode))
    /\ UNCHANGED <<files, hashSeed, call, schema_data, output, wrapperVars>>

\* output_path.write_text(code)
WriteOutput ==
    /\ pc = "generated"
    /\ output' = code
    /\ pc' = "done"
    /\ UNCHANGED <<files, hashSeed, call, schema_data, code, exc, wrapperVars>>

\* schemas/b.schema.json: absent (Null), not JSON, or a document that
\* declares a second event and simple_event once more
SecondDoc ==
    Dict([events |-> Dict([alpha_event |-> ObjectEvent(PlanEnum),
                           simple_event |-> PlainDoc])])

SecondFiles == {EmptyMap, SecondPath :> InvalidJson, SecondPath :> SecondDoc}

\* an artifact of an earlier run
OldArtifact == [k |-> "code", typed_dicts |-> <<>>, event_names |-> <<>>,
                schemas_const |-> <<>>,
                validation_mode |-> "strict"]

InitLoad ==
    /\ \/ \E e \in EventFrags : \E second \in SecondFiles :
            files = (MainPath :> MainDoc(e)) @@ second @@ SharedFiles
       \/ files = SharedFiles
    /\ hashSeed \in HashSeeds
    /\ call = NoCall
    /\ pc = "start" /\ schema_data = <<>> /\ code = Null /\ exc = Null
    /\ output \in {Null, OldArtifact}
    /\ IdleWrapper

NextLoad == LoadSchemas \/ GenerateCode \/ WriteOutput

SpecLoad == InitLoad /\ [][NextLoad]_vars

----------------------------------------------------------------------------
(* load_schemas run twice over the same files *)

\* a second process starts on the files of the first: the string-hash seed
\* is drawn anew, and what the first run loaded is kept aside to compare
RunAgain ==
    /\ pc = "loaded"
    /\ "first" \notin DOMAIN call
    /\ hashSeed' \in HashSeeds
    /\ call' = [made |-> FALSE, again |-> FALSE, schema |-> Null, file_path |-> <<>>,
                result |-> Null, first |-> schema_data]
    /\ pc' = "start"
    /\ schema_data' = <<>>
    /\ UNCHANGED <<files, code, exc, output, wrapperVars>>

NextTwoRuns == LoadSchemas \/ RunAgain

SpecTwoRuns == InitLoad /\ [][NextTwoRuns]_vars

----------------------------------------------------------------------------
(* Calls of the helper functions *)

MaxItemsDepth == 2

\* the event names event_name_to_type is called on
HelperNames ==
    {"simple_event", "alpha_event", "beta_event", "user_signed_up",
     "button-clicked", "page__view", "checkoutStarted"}

\* the schemas json_schema_to_python_type is called on, arrays apart: falsy
\* values, the types of the table with and without enum, objects, schemas
\* without a type or with a list of types, and values that are not dicts
PlainFragments ==
    {Null, EmptyDict, Bool(FALSE), Bool(TRUE), Str("string"),
     TypeOnly("string"), TypeOnly("number"), TypeOnly("integer"), TypeOnly("boolean"),
     TypeOnly("object"), TypeOnly("array"), TypeOnly("null"),
     PlanEnum,
     Dict([type |-> Str("string"),
           enum |-> List(<<Str("c"), Str("a"), Str("b")>>)]),
     Dict([type |-> Str("string"), enum |-> List(<<Num(1), Num(2)>>)]),
     Dict([type |-> Str("string"), enum |-> EmptyList]),
     Dict([type |-> Str("integer"), enum |-> List(<<Num(1), Num(2)>>)]),
     Dict([type |-> Str("object"), additionalProperties |-> Bool(TRUE)]),
     Dict([type |-> Str("object"),
           properties |-> Dict([name |-> TypeOnly("string")])]),
     Dict([properties |-> Dict([name |-> TypeOnly("string")])]),
     Dict([type |-> List(<<Str("string"), Str("null")>>)]),
     Dict([enum |-> List(<<Str("a"), Str("b")>>)])}

ArrayOf(items) == Dict([type |-> Str("array"), items |-> items])

\* the plain fragments and the arrays of them, nested up to depth
RECURSIVE FragmentsUpTo(_)
FragmentsUpTo(depth) ==
    IF depth = 0 THEN PlainFragments
    ELSE PlainFragments \cup {ArrayOf(f) : f \in FragmentsUpTo(depth - 1)}

\* event_name_to_type(event_name)
CallEventNameToType ==
    /\ \E event_name \in HelperNames :
         call' = [made |-> TRUE, again |-> FALSE, fn |-> "event_name_to_type",
                  arg |-> event_name, result |-> event_name_to_type(event_name)]
    /\ UNCHANGED <<files, hashSeed, genVars, wrapperVars>>

\* json_schema_to_python_type(schema)
CallJsonSchemaToPythonType ==
    /\ \E schema \in FragmentsUpTo(MaxItemsDepth) :
         call' = [made |-> TRUE, again |-> FALSE, fn |-> "json_schema_to_python_type",
                  arg |-> schema, result |-> json_schema_to_python_type(schema)]
    /\ UNCHANGED <<files, hashSeed, genVars, wrapperVars>>

InitHelpers ==
    /\ files = SharedFiles
    /\ hashSeed \in HashSeeds
    /\ call = NoCall
    /\ IdleGen
    /\ IdleWrapper

NextHelpers == CallEventNameToType \/ CallJsonSchemaToPythonType

SpecHelpers == InitHelpers /\ [][NextHelpers]_vars

----------------------------------------------------------------------------
(* The generated wrapper class *)

\* class ValidationMode(Enum)
Modes == {"strict", "warning", "disabled"}

\* schemas/a.schema.json of a project that uses the wrapper: an event with
\* required fields and an enum, an allOf composition, and an empty schema
WrapperDoc ==
    Dict([definitions |-> MainDefinitions,
          events |->
              Dict([simple_event |->
                        Dict([type |-> Str("object"),
                              properties |-> Dict([name |-> TypeOnly("string"),
                                                   count |-> TypeOnly("integer"),
                                                   plan |-> PlanEnum]),
                              required |-> List(<<Str("name"), Str("count")>>)]),
                    beta_event |->
                        Dict([allOf |-> List(<<
                            Ref("#/definitions/Base"),
                            Dict([properties |-> Dict([count |-> TypeOnly("integer")]),
                                  required |-> List(<<Str("count")>>)])>>)]),
                    alpha_event |-> EmptyDict])])

\* the module constant SCHEMAS of the generated module that was written:
\* the dict its literal evaluates to
SCHEMAS == DictLiteral(output.schemas_const, EmptyMap)

\* whether the wrapper instance has been constructed
Constructed == schemas # Null

\* the messages of the validation errors
MissingRequired(field) == [k |-> "msg", text |-> "Missing required field", field |-> field]
InvalidEnum(field, value) ==
    [k |-> "msg", text |-> "Invalid enum value for", field |-> field, value |-> value]

\* SkipsValidation without the test of the mode
SkipsValidation_unknown_only(event_name) ==
    ~Truthy(Get(schemas, event_name))

\* the early returns of _validate: the mode is DISABLED, or the table has no
\* (or an empty) schema under the name
SkipsValidation(event_name) ==
    \/ validation_mode = "disabled"
    \/ ~Truthy(Get(schemas, event_name))

\* _validate returning None whatever it is given
_validate_never_reports(event_name, properties) == Null

\* _validate without the loop over properties.items()
_validate_required_only(event_name, properties) ==
    IF SkipsValidation(event_name) THEN Null
    ELSE LET required == GetOr(schemas.d[event_name], "required", EmptyList).l
             missing == SelectSeq(required, LAMBDA f : f.s \notin DOMAIN properties.d)
             Return(errors) == IF errors # <<>> THEN List(errors) ELSE Null
         IN Return([i \in DOMAIN missing |-> MissingRequired(missing[i].s)])

\* _validate(self, event_name, properties): None, or the list of errors.
\* properties.items() is walked in the order of the names
_validate(event_name, properties) ==
    IF SkipsValidation(event_name) THEN Null
    ELSE LET schema == schemas.d[event_name]
             required == GetOr(schema, "required", EmptyList).l
             props == GetOr(schema, "properties", EmptyDict).d
             \* for field in required: if field not in properties
             missing == SelectSeq(required, LAMBDA f : f.s \notin DOMAIN properties.d)
             \* for field, value in properties.items(): if field in props and
             \* 'enum' in prop_schema and value not in prop_schema['enum']
             bad == {f \in DOMAIN properties.d \cap DOMAIN props :
                        /\ "enum" \in DOMAIN props[f].d
                        /\ properties.d[f] \notin Range(props[f].d["enum"].l)}
             fields == SortedBy(bad, [f \in bad |-> StrRank(f)])
             Return(errors) == IF errors # <<>> THEN List(errors) ELSE Null
         IN Return([i \in DOMAIN missing |-> MissingRequired(missing[i].s)]
                   \o [i \in DOMAIN fields |-> InvalidEnum(fields[i], properties.d[fields[i]])])

\* a call of the wrapped SDK: the module posthog, as the generated code calls it
SdkCall(method, args) == [client |-> "posthog", method |-> method, args |-> args]

\* warning_event carrying the first error only
warning_event_first_error(distinct_id, event, props, errors) ==
    SdkCall("capture",
            [distinct_id |-> distinct_id, event |-> "$schema_validation_warning",
             properties |-> Dict([event |-> Str(event),
                                  errors |-> List(<<Head(errors.l)>>),
                                  properties |-> props]),
             kwargs |-> EmptyMap])

\* posthog.capture(distinct_id, event="$schema_validation_warning", properties={...})
warning_event(distinct_id, event, props, errors) ==
    SdkCall("capture",
            [distinct_id |-> distinct_id, event |-> "$schema_validation_warning",
             properties |-> Dict([event |-> Str(event), errors |-> errors,
                                  properties |-> props]),
             kwargs |-> EmptyMap])

\* send_event without **kwargs
send_event_without_kwargs(distinct_id, event, props, kwargs) ==
    SdkCall("capture", [distinct_id |-> distinct_id, event |-> event,
                        properties |-> props, kwargs |-> EmptyMap])

\* posthog.capture(distinct_id, event, properties, **kwargs)
send_event(distinct_id, event, props, kwargs) ==
    SdkCall("capture", [distinct_id |-> distinct_id, event |-> event,
                        properties |-> props, kwargs |-> kwargs])

\* a capture that sends the diagnostic event before it raises in STRICT mode
CaptureCall_warns_before_raising(distinct_id, event, properties, kwargs) ==
    LET Call(outcome, errors, warned, sdk) ==
            [op |-> "capture", distinct_id |-> distinct_id, event |-> event,
             properties |-> properties, kwargs |-> kwargs,
             mode |-> validation_mode,
             computed |-> ~SkipsValidation(event),
             errors |-> errors, outcome |-> outcome, warned |-> warned,
             sdk |-> sdk]
        Validated(props, errors) ==
            IF Truthy(errors) /\ validation_mode = "strict"
            THEN Call("ValueError", errors, TRUE,
                      <<warning_event(distinct_id, event, props, errors)>>)
            ELSE IF Truthy(errors) /\ validation_mode = "warning"
            THEN Call("returned", errors, TRUE,
                      <<warning_event(distinct_id, event, props, errors),
                        send_event(distinct_id, event, props, kwargs)>>)
            ELSE Call("returned", errors, FALSE,
                      <<send_event(distinct_id, event, props, kwargs)>>)
        Body(props) == Validated(props, _validate(event, props))
    IN Body(IF Truthy(properties) THEN properties ELSE EmptyDict)

\* what one call of capture does: the arguments it was made with, the mode it
\* ran under, whether _validate built an error list, the errors, how the call
\* ended and the calls the SDK received, in order
CaptureCall(distinct_id, event, properties, kwargs) ==
    LET Call(outcome, errors, warned, sdk) ==
            [op |-> "capture", distinct_id |-> distinct_id, event |-> event,
             properties |-> properties, kwargs |-> kwargs,
             mode |-> validation_mode,
             computed |-> ~SkipsValidation(event),
             errors |-> errors, outcome |-> outcome, warned |-> warned,
             sdk |-> sdk]
        Validated(props, errors) ==
            IF Truthy(errors) /\ validation_mode = "strict"
            THEN Call("ValueError", errors, FALSE, <<>>)
            ELSE IF Truthy(errors) /\ validation_mode = "warning"
            THEN Call("returned", errors, TRUE,
                      <<warning_event(distinct_id, event, props, errors),
                        send_event(distinct_id, event, props, kwargs)>>)
            ELSE Call("returned", errors, FALSE,
                      <<send_event(distinct_id, event, props, kwargs)>>)
        \* properties = properties or {}
        Body(props) == Validated(props, _validate(event, props))
    IN Body(IF Truthy(properties) THEN properties ELSE EmptyDict)

\* capture switching validation off once a call has raised
capture_disables_after_raise(distinct_id, event, properties, kwargs) ==
    /\ Constructed
    /\ last' = CaptureCall(distinct_id, event, properties, kwargs)
    /\ validation_mode' =
           (IF CaptureCall(distinct_id, event, properties, kwargs).outcome = "ValueError"
            THEN "disabled" ELSE validation_mode)
    /\ UNCHANGED <<schemas, default_mode, api_key>>
    /\ UNCHANGED <<files, hashSeed, call, genVars>>

\* capture(self, distinct_id, event, properties=None, **kwargs)
capture(distinct_id, event, properties, kwargs) ==
    /\ Constructed
    /\ last' = CaptureCall(distinct_id, event, properties, kwargs)
    /\ UNCHANGED <<validation_mode, schemas, default_mode, api_key>>
    /\ UNCHANGED <<files, hashSeed, call, genVars>>

\* identify, alias, feature_enabled, get_feature_flag, shutdown: forwarded
Delegate(method, args) ==
    /\ Constructed
    /\ last' = [op |-> method, args |-> args, mode |-> validation_mode,
                outcome |-> "returned", sdk |-> <<SdkCall(method, args)>>]
    /\ UNCHANGED <<validation_mode, schemas, default_mode, api_key>>
    /\ UNCHANGED <<files, hashSeed, call, genVars>>

\* __init__(self, api_key=None, host=None, validation_mode=<generated default>,
\* **kwargs) with the arguments bound: kwargs is not read
__init__(key, mode, kwargs) ==
    /\ validation_mode' = mode
    /\ api_key' = (IF Truthy(key) THEN key ELSE api_key)
    /\ schemas' = SCHEMAS
    /\ last' = [op |-> "__init__",
                args |-> [api_key |-> key, validation_mode |-> mode, kwargs |-> kwargs],
                mode |-> validation_mode, outcome |-> "returned", sdk |-> <<>>]
    /\ UNCHANGED <<default_mode, files, hashSeed, call, genVars>>

\* the arguments the calls are made with
DistinctIds == {"user-123"}
EventNames ==
    {"simple_event", "beta_event", "alpha_event", "custom_event_without_schema",
     "$schema_validation_warning"}
PropertyDicts ==
    {Dict(n @@ c @@ p) :
        n \in {EmptyMap, "name" :> Str("Ada")},
        c \in {EmptyMap, "count" :> Num(1)},
        p \in {EmptyMap, "plan" :> Str("pro"), "plan" :> Str("gold")}}
PropertyArgs == {Null} \cup PropertyDicts
KwargsArgs == {EmptyMap, "timestamp" :> Str("2024-01-01")}

Capture ==
    \E d \in DistinctIds, e \in EventNames, p \in PropertyArgs, kw \in KwargsArgs :
        capture(d, e, p, kw)

Identify ==
    \E d \in DistinctIds :
        Delegate("identify", [distinct_id |-> d, properties |-> Null, kwargs |-> EmptyMap])

Alias ==
    \E d \in DistinctIds :
        Delegate("alias", [previous_id |-> "anonymous-123", distinct_id |-> d,
                           kwargs |-> EmptyMap])

FeatureEnabled ==
    \E d \in DistinctIds :
        Delegate("feature_enabled", [key |-> "new-dashboard", distinct_id |-> d,
                                     kwargs |-> EmptyMap])

GetFeatureFlag ==
    \E d \in DistinctIds :
        Delegate("get_feature_flag", [key |-> "new-dashboard", distinct_id |-> d,
                                      kwargs |-> EmptyMap])

Shutdown == Delegate("shutdown", <<>>)

\* the keyword arguments a caller adds: none, or an SDK client of its own
\* as posthog_instance
InitKwargs ==
    {EmptyMap, "posthog_instance" :> "project_a", "posthog_instance" :> "project_b"}

\* the generated module is imported and the instance constructed, with the
\* default mode or with a mode of the caller's choice
Construct ==
    /\ pc = "done"
    /\ ~Constructed
    /\ \E mode \in Modes, kwargs \in InitKwargs : __init__(Null, mode, kwargs)

\* posthog.__init__(api_key="YOUR_API_KEY") on the live instance, as the usage
\* example does: validation_mode takes its default
Reinitialise ==
    /\ Constructed
    /\ __init__(Str("YOUR_API_KEY"), output.validation_mode, EmptyMap)

\* the schema files of the project before its wrapper is generated with
\* some default mode
InitWrapper ==
    /\ files = (MainPath :> WrapperDoc) @@ SharedFiles
    /\ hashSeed \in HashSeeds
    /\ call = NoCall
    /\ pc = "start" /\ schema_data = <<>> /\ code = Null /\ exc = Null
    /\ output = Null
    /\ default_mode \in Modes
    /\ validation_mode = "unset"
    /\ schemas = Null
    /\ api_key = Null
    /\ last = [op |-> "none"]

NextWrapper ==
    \/ LoadSchemas \/ GenerateCode \/ WriteOutput \/ Construct
    \/ Capture \/ Identify \/ Alias \/ FeatureEnabled \/ GetFeatureFlag
    \/ Shutdown \/ Reinitialise

SpecWrapper == InitWrapper /\ [][NextWrapper]_vars

----------------------------------------------------------------------------
(* Properties of the wrapper *)

\* the last operation was a call of capture
Captured == last.op = "capture"

\* the names the caller's properties define (none when no properties are passed)
PassedNames == IF IsDict(last.properties) THEN DOMAIN last.properties.d ELSE {}

\* the event of the last capture is a key of the schema table
KnownEvent == last.event \in DOMAIN schemas.d

\* the names the schema of the event requires that the caller did not pass
MissingNames ==
    LET schema == schemas.d[last.event]
    IN IF IsDict(schema) /\ "required" \in DOMAIN schema.d
       THEN {f.s : f \in Range(schema.d["required"].l)} \ PassedNames
       ELSE {}

\* the names the caller passed whose schema declares an enum that the value
\* is not a member of
EnumBreaks ==
    LET schema == schemas.d[last.event]
    IN IF IsDict(schema) /\ "properties" \in DOMAIN schema.d
       THEN {f \in PassedNames \cap DOMAIN schema.d["properties"].d :
                /\ "enum" \in DOMAIN schema.d["properties"].d[f].d
                /\ \A v \in Range(schema.d["properties"].d[f].d["enum"].l) :
                       v # last.properties.d[f]}
       ELSE {}

\* one error for each violation
ExpectedErrors ==
    {MissingRequired(f) : f \in MissingNames}
    \cup {InvalidEnum(f, last.properties.d[f]) : f \in EnumBreaks}

\* the properties capture works with when the caller passes none
GivenProperties == IF last.properties = Null THEN EmptyDict ELSE last.properties

\* the original event as the SDK should receive it
OriginalEvent ==
    [client |-> "posthog", method |-> "capture",
     args |-> [distinct_id |-> last.distinct_id, event |-> last.event,
               properties |-> GivenProperties, kwargs |-> last.kwargs]]

\* C1: in STRICT mode a capture of an event of the table whose properties
\* lack a required field fails with a validation error and nothing at all is
\* forwarded to the SDK
C1_StrictMissingRequiredFails ==
    (Captured /\ last.mode = "strict" /\ KnownEvent /\ MissingNames # {})
        => (last.outcome = "ValueError" /\ last.sdk = <<>>)

C1_Witness ==
    /\ Captured /\ last.mode = "strict" /\ last.event = "simple_event"
    /\ PassedNames = {"name"} /\ MissingNames = {"count"}
    /\ last.outcome = "ValueError" /\ last.sdk = <<>>

\* C2: in WARNING mode a capture whose properties fail validation returns
\* normally after the SDK received exactly two captures: first the event
\* $schema_validation_warning carrying {event, errors, properties} with every
\* error, then the original event
C2_WarningSendsDiagnosticThenEvent ==
    (Captured /\ last.mode = "warning" /\ KnownEvent /\ ExpectedErrors # {})
        => /\ last.outcome = "returned"
           /\ Len(last.sdk) = 2
           /\ last.sdk[1].client = "posthog" /\ last.sdk[1].method = "capture"
           /\ last.sdk[1].args.distinct_id = last.distinct_id
           /\ last.sdk[1].args.event = "$schema_validation_warning"
           /\ DOMAIN last.sdk[1].args.properties.d = {"event", "errors", "properties"}
           /\ last.sdk[1].args.properties.d["event"] = Str(last.event)
           /\ Range(last.sdk[1].args.properties.d["errors"].l) = ExpectedErrors
           /\ Len(last.sdk[1].args.properties.d["errors"].l) = Cardinality(ExpectedErrors)
           /\ last.sdk[1].args.properties.d["properties"] = GivenProperties
           /\ last.sdk[2] = OriginalEvent

C2_Witness ==
    /\ Captured /\ last.mode = "warning" /\ last.event = "simple_event"
    /\ MissingNames = {"count"} /\ EnumBreaks = {"plan"}
    /\ Len(last.sdk) = 2 /\ last.sdk[2] = OriginalEvent
    /\ Len(last.sdk[1].args.properties.d["errors"].l) = 2

\* C3: in DISABLED mode capture never builds an error list, never fails,
\* never adds a diagnostic event of its own (a call of that name is the
\* caller's own event) and always forwards the original event, whatever the
\* event name and the properties
C3_DisabledAlwaysForwards ==
    (Captured /\ last.mode = "disabled")
        => /\ ~last.computed
           /\ last.errors = Null
           /\ last.outcome = "returned"
           /\ ~last.warned
           /\ \A i \in DOMAIN last.sdk :
                 last.sdk[i].args.event = "$schema_validation_warning"
                     => last.sdk[i] = OriginalEvent
           /\ last.sdk = <<OriginalEvent>>

C3_Witness ==
    /\ Captured /\ last.mode = "disabled" /\ last.event = "simple_event"
    /\ MissingNames = {"name", "count"} /\ EnumBreaks = {"plan"}
    /\ last.sdk = <<OriginalEvent>>

\* C4, as the claim states it: a capture of an event that is not in the
\* table skips validation and forwards exactly one capture with the
\* distinct id, event, properties and extra arguments as the caller passed
\* them, also when no properties were passed
C4_UnknownEventForwardedUnchanged ==
    (Captured /\ ~KnownEvent)
        => /\ ~last.computed
           /\ last.outcome = "returned"
           /\ last.sdk = <<[client |-> "posthog", method |-> "capture",
                            args |-> [distinct_id |-> last.distinct_id,
                                      event |-> last.event,
                                      properties |-> last.properties,
                                      kwargs |-> last.kwargs]]>>

\* C4, amended: a capture of an event that is not in the table skips
\* validation and forwards exactly one capture with the caller's distinct id,
\* event and extra arguments, and with the caller's properties, an empty dict
\* standing in for them when no properties were passed
C4_UnknownEventForwarded ==
    (Captured /\ ~KnownEvent)
        => /\ ~last.computed
           /\ last.errors = Null
           /\ last.outcome = "returned"
           /\ last.sdk = <<OriginalEvent>>
           /\ (last.properties = Null => last.sdk[1].args.properties = EmptyDict)

C4_Witness ==
    /\ Captured /\ last.event = "custom_event_without_schema" /\ ~KnownEvent
    /\ last.properties = Null /\ last.kwargs # EmptyMap
    /\ last.sdk = <<OriginalEvent>>
    /\ last.sdk[1].args.properties = EmptyDict

C6_ModeFixedForLifetime ==
    [][Constructed => validation_mode' = validation_mode]_vars

\* C7: a capture that fails validation, in STRICT or WARNING mode, leaves the
\* mode and the schema table as they were, and with them what every later
\* capture validates against (capture reads nothing else of the instance)
C7_FailedCaptureLeavesState ==
    [][(last'.op = "capture" /\ Truthy(last'.errors)
        /\ last'.mode \in {"strict", "warning"})
           => /\ validation_mode' = validation_mode
              /\ schemas' = schemas
              /\ \A e \in EventNames : SkipsValidation(e)' = SkipsValidation(e)]_vars

C7_Witness ==
    /\ Captured /\ last.mode = "strict" /\ last.outcome = "ValueError"
    /\ last.event = "beta_event" /\ PassedNames = {}
    /\ validation_mode = "strict" /\ schemas = SCHEMAS

----------------------------------------------------------------------------
(* Properties of the resolver *)

\* a $ref or an allOf key at some depth of a value
RECURSIVE HasRefOrAllOf(_)
HasRefOrAllOf(v) ==
    IF IsDict(v)
    THEN \/ "$ref" \in DOMAIN v.d
         \/ "allOf" \in DOMAIN v.d
         \/ \E key \in DOMAIN v.d : HasRefOrAllOf(v.d[key])
    ELSE IF IsList(v) THEN \E i \in DOMAIN v.l : HasRefOrAllOf(v.l[i])
    ELSE FALSE

\* C8, as the claim states it: the resolved schema of every event that was
\* loaded holds no $ref key and no allOf key at any depth
C8_LoadedSchemasFullyResolved ==
    pc \in {"loaded", "generated", "done"}
        => \A i \in DOMAIN schema_data : ~HasRefOrAllOf(schema_data[i].schema)

\* C9, as the claim states it: resolving the result of a resolution, with
\* the same root document and path, returns it unchanged
C9_ResolveIdempotent ==
    (call.made /\ call.again /\ ~IsRaise(call.result)) => call.result = call.schema

\* the last call resolved a composition: a dict with allOf and without $ref,
\* and returned
MergedCall ==
    /\ call.made /\ ~call.again
    /\ IsDict(call.schema)
    /\ "allOf" \in DOMAIN call.schema.d /\ "$ref" \notin DOMAIN call.schema.d
    /\ ~IsRaise(call.result)

\* the members of the composition as resolved, those that resolved to an
\* object: a member that resolves to nothing defines nothing
ResolvedMembers ==
    LET subs == call.schema.d["allOf"].l
        all == [i \in DOMAIN subs |->
                   resolve_refs(subs[i], files[call.file_path], call.file_path, 1)] \o <<>>
    IN SelectSeq(all, IsDict)

MemberProperties(m) == GetOr(m, "properties", EmptyDict).d
MemberRequired(m) == Range(GetOr(m, "required", EmptyList).l)

\* C10: resolving allOf = [S1..Sn] yields one object whose properties are
\* those of the resolved members, the latest member that defines a name
\* giving its definition; whose required holds each name some member
\* requires, once; and whose additionalProperties, if a member defines it, is
\* that of the last member defining it
C10_AllOfMerge ==
    MergedCall =>
        LET Holds(ms, out) ==
                /\ DOMAIN out = {"type", "properties", "required"}
                       \cup (IF \E i \in DOMAIN ms : "additionalProperties" \in DOMAIN ms[i].d
                             THEN {"additionalProperties"} ELSE {})
                /\ out["type"] = Str("object")
                /\ DOMAIN out["properties"].d
                       = UNION {DOMAIN MemberProperties(ms[i]) : i \in DOMAIN ms}
                /\ \A n \in DOMAIN out["properties"].d :
                       \E i \in DOMAIN ms :
                           /\ n \in DOMAIN MemberProperties(ms[i])
                           /\ \A j \in DOMAIN ms :
                                  n \in DOMAIN MemberProperties(ms[j]) => j <= i
                           /\ out["properties"].d[n] = MemberProperties(ms[i])[n]
                /\ Range(out["required"].l) = UNION {MemberRequired(ms[i]) : i \in DOMAIN ms}
                /\ Len(out["required"].l) = Cardinality(Range(out["required"].l))
                /\ \A i \in DOMAIN ms :
                       ("additionalProperties" \in DOMAIN ms[i].d
                        /\ \A j \in DOMAIN ms :
                               "additionalProperties" \in DOMAIN ms[j].d => j <= i)
                           => out["additionalProperties"] = ms[i].d["additionalProperties"]
        IN Holds(ResolvedMembers, call.result.d)

\* Base then Extra: both define plan and name is required by both
C10_Witness ==
    /\ MergedCall
    /\ call.schema.d["allOf"].l = <<Ref("#/definitions/Base"), Ref("#/definitions/Extra")>>
    /\ call.result.d["properties"].d["plan"] = TypeOnly("integer")
    /\ DOMAIN call.result.d["properties"].d = {"name", "plan", "count"}
    /\ Len(call.result.d["required"].l) = 2
    /\ call.result.d["additionalProperties"] = Bool(FALSE)

\* the last call resolved a composition of three both ways, and both returned
NestedCall ==
    /\ call.made /\ "nested" \in DOMAIN call
    /\ ~IsRaise(call.result) /\ ~IsRaise(call.nested)

\* C11: resolving allOf [A, B, C] and resolving allOf [A, {allOf: [B, C]}]
\* give the same properties, the same set of required names and the same
\* additionalProperties
C11_AllOfAssociative ==
    (call.made /\ "nested" \in DOMAIN call)
        => /\ ~IsRaise(call.result) /\ ~IsRaise(call.nested)
           /\ call.result.d["properties"] = call.nested.d["properties"]
           /\ Range(call.result.d["required"].l) = Range(call.nested.d["required"].l)
           /\ ("additionalProperties" \in DOMAIN call.result.d)
                  <=> ("additionalProperties" \in DOMAIN call.nested.d)
           /\ "additionalProperties" \in DOMAIN call.result.d
                  => call.result.d["additionalProperties"]
                         = call.nested.d["additionalProperties"]

\* A defines name, B and C do not; A and B say whether more is allowed
C11_Witness ==
    /\ NestedCall
    /\ call.schema.d["allOf"].l[1] = Ref("#/definitions/Base")
    /\ call.schema.d["allOf"].l[2] = Ref("#/definitions/Extra")
    /\ call.schema.d["allOf"].l[3] = Dict([properties |-> Dict([count |-> TypeOnly("string")])])
    /\ call.nested.d["properties"].d["count"] = TypeOnly("string")
    /\ call.nested.d["additionalProperties"] = Bool(FALSE)
    /\ Range(call.nested.d["required"].l) = {Str("name"), Str("count")}

\* a $ref to the given target at some depth of a value
RECURSIVE RefersTo(_, _)
RefersTo(v, target) ==
    IF IsDict(v)
    THEN \/ ("$ref" \in DOMAIN v.d /\ v.d["$ref"] = Str(target))
         \/ \E key \in DOMAIN v.d : RefersTo(v.d[key], target)
    ELSE IF IsList(v) THEN \E i \in DOMAIN v.l : RefersTo(v.l[i], target)
    ELSE FALSE

\* the last call was a first resolution, with schemas/a.schema.json as root, of
\* a fragment that reaches definitions/Loop, a $ref to itself
CyclicCall ==
    /\ call.made /\ ~call.again /\ call.file_path = MainPath
    /\ RefersTo(call.schema, "#/definitions/Loop")

\* C12, as the claim states it: resolving a fragment whose references reach a
\* cycle ends in a cyclic-reference error, and not in the exhaustion of the
\* recursion limit
C12_CycleEndsInCyclicReferenceError ==
    CyclicCall => call.result = Raise("CyclicReferenceError")

\* the last call was a first resolution of a fragment that is a $ref of a
\* scheme other than '#/' and './'
UnsupportedCall ==
    /\ call.made /\ ~call.again
    /\ call.schema = Ref("http://example.com/shared.json")

\* C13, as the claim states it: resolving a $ref of an unsupported scheme ends
\* in an unsupported-reference error and returns nothing
C13_UnsupportedSchemeFails ==
    UnsupportedCall => call.result = Raise("UnsupportedReferenceError")

----------------------------------------------------------------------------
(* Properties of a generation run *)

\* the $ref strings whose path does not exist in the document they name
MissingRefStrings ==
    {"#/definitions/Missing", "#/missing/Shared",
     "./common.json#/definitions/Missing", "./common.json#/missing/Ext"}

\* the run is over a simple_event that is, or has a property that is, a $ref
\* to a path that does not exist, and every matched file is JSON
MissingRefRun ==
    /\ MainPath \in DOMAIN files
    /\ \E s \in MissingRefStrings :
         files[MainPath].d["events"].d["simple_event"] \in {Ref(s), ObjectEvent(Ref(s))}
    /\ \A p \in Glob(Pattern) : files[p] # InvalidJson

\* C14, as the claim states it: a $ref to a path that does not exist, at the
\* top of an event or in one of its properties, does not abort the generation
C14_MissingRefDoesNotAbort ==
    MissingRefRun => pc # "raised"

\* the run has loaded its schemas
Loaded == pc \in {"loaded", "generated", "done"}

\* the event names of schema_data, in its order
LoadedNames == [i \in DOMAIN schema_data |-> schema_data[i].event_name]

\* C15: the loaded events are in descending order of event name and are the
\* same sequence for every order in which glob lists the files and every order
\* in which the documents list their events; the event names and the keys of
\* the schema table in the generated code follow that order
C15_DescendingWhateverTheOrder ==
    /\ Loaded =>
         /\ \A i, j \in DOMAIN schema_data :
              i < j => StrRank(schema_data[i].event_name) >= StrRank(schema_data[j].event_name)
         /\ \A glob_order \in Orders(Glob(Pattern)) : \A items_order \in ItemsOrders :
              load_schemas(Pattern, glob_order, items_order) = List(schema_data)
    /\ pc \in {"generated", "done"} =>
         /\ code.event_names = LoadedNames
         /\ [i \in DOMAIN code.schemas_const |-> code.schemas_const[i].key] = LoadedNames

\* two files were loaded, the second with two events, and the artifact was
\* written with the names in descending order
C15_Witness ==
    /\ pc = "done"
    /\ Cardinality(Glob(Pattern)) = 2
    /\ LoadedNames = <<"simple_event", "simple_event", "alpha_event">>
    /\ output.event_names = LoadedNames

\* C16, as the claim states it: no event name occurs twice in the loaded
\* events, nor in the event names and the schema table of the generated code
C16_EventNamesUnique ==
    /\ Loaded =>
         \A i, j \in DOMAIN schema_data :
            schema_data[i].event_name = schema_data[j].event_name => i = j
    /\ pc \in {"generated", "done"} =>
         /\ \A i, j \in DOMAIN code.event_names :
              code.event_names[i] = code.event_names[j] => i = j
         /\ \A i, j \in DOMAIN code.schemas_const :
              code.schemas_const[i].key = code.schemas_const[j].key => i = j

\* the pattern matches no file
NoFileMatched == Glob(Pattern) = {}

\* C17: when the pattern matches no file the run does not raise, and what it
\* writes is the generated module with no event name and an empty schema table
C17_NoFilesStillGenerates ==
    NoFileMatched =>
        /\ pc # "raised"
        /\ Loaded => schema_data = <<>>
        /\ pc = "done" =>
             /\ output = code
             /\ output.k = "code"
             /\ output.event_names = <<>>
             /\ output.schemas_const = <<>>
             /\ DictLiteral(output.schemas_const, EmptyMap) = EmptyDict

\* a run over a directory without schema files has written its module over
\* the artifact of an earlier run
C17_Witness ==
    /\ NoFileMatched
    /\ pc = "done"
    /\ output # OldArtifact
    /\ output.event_names = <<>>
    /\ output.validation_mode = default_mode

\* the exceptions a run ends with when a file it reads is not JSON or is not
\* there, or when resolution or generation fails
GenerationErrors ==
    {Raise("JSONDecodeError"), Raise("FileNotFoundError"), Raise("AttributeError"),
     Raise("TypeError"), Raise("RecursionError")}

\* C18: a step that ends the run with an error leaves the output file as it
\* was, and the only step that changes the output file is the write of the
\* complete generated module, after which no error follows
C18_NoPartialOutput ==
    [][/\ pc' = "raised" => (exc' \in GenerationErrors /\ output' = output)
       /\ output' # output =>
            (pc = "generated" /\ pc' = "done" /\ code.k = "code" /\ output' = code)
       /\ pc = "done" => pc' = "done"]_vars

\* a run ended with an error: the artifact of the earlier run is still there
RaisedOver(e) == pc = "raised" /\ exc = Raise(e) /\ output = OldArtifact

\* a run was aborted by a referenced file that is not JSON
C18_Witness ==
    /\ RaisedOver("JSONDecodeError")
    /\ MainPath \in DOMAIN files
    /\ files[MainPath].d["events"].d["simple_event"] = ObjectEvent(Ref("./broken.json"))
    /\ SecondPath \notin DOMAIN files

----------------------------------------------------------------------------
(* Properties of the helper functions *)

\* the type names the rule gives: the segments between '-' and '_', each
\* capitalized, then Properties
ExpectedTypeName(event_name) ==
    CASE event_name = "user_signed_up" -> <<"User", "Signed", "Up", "Properties">>
      [] event_name = "button-clicked" -> <<"Button", "Clicked", "Properties">>
      [] event_name = "simple_event"   -> <<"Simple", "Event", "Properties">>
      [] event_name = "alpha_event"    -> <<"Alpha", "Event", "Properties">>
      [] event_name = "beta_event"     -> <<"Beta", "Event", "Properties">>
      [] event_name = "page__view"     -> <<"Page", "View", "Properties">>
      [] event_name = "checkoutStarted" -> <<"Checkoutstarted", "Properties">>

\* the last call was of the given helper
Called(fn) == call.made /\ call.fn = fn

\* C19: the type name returned for an event name is the one the rule gives,
\* whatever else the state holds
C19_TypeNameFromEventName ==
    Called("event_name_to_type") => call.result = ExpectedTypeName(call.arg)

\* the name of the usage example with two separators was converted
C19_Witness ==
    /\ Called("event_name_to_type")
    /\ call.arg = "user_signed_up"
    /\ call.result = <<"User", "Signed", "Up", "Properties">>

\* the mapping table, row by row
RECURSIVE TableHint(_)
TableHint(fragment) ==
    IF ~Truthy(fragment) THEN Hint("Any")
    ELSE IF ~IsDict(fragment) THEN Hint("Any")
    ELSE LET type == GetOr(fragment, "type", Null)
         IN CASE type = Str("string") ->
                    IF Truthy(GetOr(fragment, "enum", Null))
                    THEN LiteralHint(fragment.d["enum"].l)
                    ELSE Hint("str")
              [] type = Str("number")  -> Hint("float")
              [] type = Str("integer") -> Hint("int")
              [] type = Str("boolean") -> Hint("bool")
              [] type = Str("array")   ->
                    ListHint(TableHint(GetOr(fragment, "items", Null)))
              [] type = Str("object")  -> Hint("Dict[str, Any]")
              [] OTHER -> Hint("Any")

\* C20, as the claim states it: for every fragment the projector returns, and
\* returns what the mapping table gives
C20_ProjectorTotalAndFollowsTable ==
    Called("json_schema_to_python_type") => call.result = TableHint(call.arg)

----------------------------------------------------------------------------
(* Properties of the generated module *)

\* the module text has been generated
Generated == pc \in {"generated", "done"}

\* the object an event schema of a document stands for when it is an object
\* written in place or a $ref to an object among the definitions
InputObject(doc, event_schema) ==
    CASE event_schema = Ref("#/definitions/Base")  -> doc.d["definitions"].d["Base"]
      [] event_schema = Ref("#/definitions/Extra") -> doc.d["definitions"].d["Extra"]
      [] OTHER -> event_schema

\* an object without $ref and allOf that lists required names
PlainWithRequired(v) ==
    /\ IsDict(v)
    /\ "$ref" \notin DOMAIN v.d /\ "allOf" \notin DOMAIN v.d
    /\ "required" \in DOMAIN v.d

\* the events the matched files declare: path and name
DeclaredEvents ==
    {pn \in Glob(Pattern) \X Range(StringOrder) :
        /\ IsDict(files[pn[1]]) /\ "events" \in DOMAIN files[pn[1]].d
        /\ pn[2] \in DOMAIN files[pn[1]].d["events"].d}

C22_CapturesGoToGivenInstance ==
    [][(/\ last.op = "__init__"
        /\ "posthog_instance" \in DOMAIN last.args.kwargs
        /\ last'.op = "capture")
          => \A i \in DOMAIN last'.sdk :
                last'.sdk[i].client = last.args.kwargs["posthog_instance"]]_vars

\* C23, as the claim states it: the value the embedded literal of an event
\* evaluates to is the resolved schema of the event
C23_EmbeddedSchemaVerbatim ==
    Generated =>
        \A i \in DOMAIN schema_data :
            code.schemas_const[i].value = schema_data[i].schema

----------------------------------------------------------------------------
(* Properties of the resolver: external and chained references *)

\* the fragment an external $ref of the inputs selects in schemas/common.json
\* or schemas/plain.json, and the file it is in
ExternalFile(ref) == IF ref = Ref("./plain.json") THEN PlainPath ELSE CommonPath

ExternalTarget(ref) ==
    CASE ref = Ref("./common.json#/definitions/Ext") ->
              files[CommonPath].d["definitions"].d["Ext"]
      [] ref = Ref("./common.json") -> files[CommonPath]
      [] ref = Ref("./plain.json")  -> files[PlainPath]

\* the last call was a first resolution of an external $ref to a fragment
\* that exists
ExternalCall ==
    /\ call.made /\ ~call.again
    /\ call.schema \in {Ref("./common.json#/definitions/Ext"), Ref("./common.json"),
                        Ref("./plain.json")}

\* C24, as the claim states it: an external $ref, with or without a fragment,
\* resolves to what resolving the selected fragment gives with the external
\* document as root and the external file as path, so that no reference of
\* the external content is left
C24_ExternalResolvedInItsDocument ==
    ExternalCall =>
        /\ call.result = resolve_refs(ExternalTarget(call.schema),
                                      files[ExternalFile(call.schema)],
                                      ExternalFile(call.schema), 0)
        /\ ~HasRefOrAllOf(call.result)

\* the $ref of the inputs whose chain ends at a fragment that exists
FoundRefs ==
    {Ref("#/definitions/Shared"), Ref("#/definitions/Chain"), Ref("#/definitions/Base"),
     Ref("#/definitions/Extra"), Ref("./common.json#/definitions/Ext"),
     Ref("./common.json"), Ref("./plain.json")}

\* the file of the fragment the chain of a $ref ends at
ChainFile(ref) ==
    IF ref \in {Ref("./common.json#/definitions/Ext"), Ref("./common.json"),
                Ref("./plain.json")}
    THEN ExternalFile(ref) ELSE MainPath

\* the fragment F the chain of a $ref ends at: Chain leads to Shared
ChainEnd(ref) ==
    CASE ref \in {Ref("#/definitions/Shared"), Ref("#/definitions/Chain")} ->
              files[MainPath].d["definitions"].d["Shared"]
      [] ref = Ref("#/definitions/Base")  -> files[MainPath].d["definitions"].d["Base"]
      [] ref = Ref("#/definitions/Extra") -> files[MainPath].d["definitions"].d["Extra"]
      [] OTHER -> ExternalTarget(ref)

\* F resolved directly, with the document F is in as root
ResolvedDirectly(ref) ==
    resolve_refs(ChainEnd(ref), files[ChainFile(ref)], ChainFile(ref), 0)

\* an allOf member with every $ref replaced by its resolved target
MemberTarget(member) == IF member \in FoundRefs THEN ResolvedDirectly(member) ELSE member

\* the last call was a first resolution, in schemas/a.schema.json, of a $ref
\* whose chain ends at a fragment
ChainCall ==
    /\ call.made /\ ~call.again /\ call.file_path = MainPath
    /\ call.schema \in FoundRefs

\* the last call was a first resolution, in schemas/a.schema.json, of an allOf
\* whose members are inline objects and $ref whose chain ends at a fragment
RefMembersCall ==
    /\ call.made /\ ~call.again /\ call.file_path = MainPath
    /\ IsDict(call.schema) /\ DOMAIN call.schema.d = {"allOf"}
    /\ \A i \in DOMAIN call.schema.d["allOf"].l :
          LET M(member) == member \in FoundRefs \/ "$ref" \notin DOMAIN member.d
          IN M(call.schema.d["allOf"].l[i])

\* C25, as the claim states it: resolving a $ref whose chain ends at F gives
\* what resolving F gives, and resolving an allOf gives what merging its
\* members gives once every member that is a $ref is replaced by its
\* resolved target
C25_ChainsAndRefMembers ==
    /\ ChainCall => call.result = ResolvedDirectly(call.schema)
    /\ RefMembersCall =>
         call.result =
            resolve_refs(Dict([allOf |->
                                 List([i \in DOMAIN call.schema.d["allOf"].l |->
                                          MemberTarget(call.schema.d["allOf"].l[i])])]),
                         files[MainPath], MainPath, 0)

----------------------------------------------------------------------------
(* Properties of the wrapper: what a capture forwards *)

\* the positions of the SDK calls of the last capture that carry the event
\* of the given name
ForwardedAs(event) == {i \in DOMAIN last.sdk : last.sdk[i].args.event = event}

\* zero captures when STRICT finds errors, two when WARNING does, one
\* otherwise; the call raises exactly in the first case
ForwardCounts ==
    /\ (last.mode = "strict" /\ Truthy(last.errors))
          => (last.outcome = "ValueError" /\ Len(last.sdk) = 0)
    /\ (last.mode = "warning" /\ Truthy(last.errors))
          => (last.outcome = "returned" /\ Len(last.sdk) = 2)
    /\ (~Truthy(last.errors))
          => (last.outcome = "returned" /\ Len(last.sdk) = 1)
    /\ (~KnownEvent \/ last.mode = "disabled") => ~Truthy(last.errors)
    /\ \A i \in DOMAIN last.sdk : last.sdk[i].method = "capture"
    /\ Cardinality({i \in DOMAIN last.sdk : last.sdk[i] = OriginalEvent}) <= 1

\* C26, as the claim states it: each capture forwards zero, one or two
\* captures according to the mode and the errors, the original event at most
\* once, and no $schema_validation_warning event unless the mode is WARNING
\* and there are errors
C26_ForwardCountsNoStrayWarning ==
    Captured =>
        /\ ForwardCounts
        /\ ForwardedAs("$schema_validation_warning") # {}
              => (last.mode = "warning" /\ Truthy(last.errors))

\* C26, amended: as above, but the $schema_validation_warning events that
\* need WARNING and errors are those the wrapper adds; an event of that name
\* that the caller captures is forwarded like any other
C26_ForwardCounts ==
    Captured =>
        /\ ForwardCounts
        /\ (\E i \in ForwardedAs("$schema_validation_warning") :
                last.sdk[i] # OriginalEvent)
              => (last.mode = "warning" /\ Truthy(last.errors))
        /\ last.warned <=> (last.mode = "warning" /\ Truthy(last.errors))

\* in WARNING mode a capture with two errors forwarded the diagnostic event
\* and then, once, the event
C26_Witness ==
    /\ Captured /\ last.mode = "warning" /\ last.event = "beta_event"
    /\ Len(last.errors.l) = 2
    /\ ForwardedAs("$schema_validation_warning") = {1}
    /\ ForwardedAs("beta_event") = {2}

----------------------------------------------------------------------------
(* Properties of two runs *)

\* the second run has loaded its schemas
LoadedAgain == pc = "loaded" /\ "first" \in DOMAIN call

\* C27, as the claim states it: the second run over the same files returns
\* the sequence of events the first returned, with the same schemas, the
\* order of every required list included
C27_SecondRunLoadsTheSame ==
    LoadedAgain => schema_data = call.first

====
